---- MODULE Spec2Model ----
(***************************************************************************)
(* MainBiometricsService (src/unnamed/part_000): the biometric unlock      *)
(* orchestrator of the desktop main process.  The service is an object     *)
(* with two mutable fields (clientKeyHalves, shouldAutoPrompt); its        *)
(* methods are async functions running on one event loop, so every         *)
(* synchronous segment between two awaits is one atomic step and calls     *)
(* that are suspended on an await interleave freely.                       *)
(*                                                                         *)
(* The OS backend (OsBiometricService), the preference store               *)
(* (BiometricStateService) and SymmetricCryptoKey are collaborators whose  *)
(* code is not in src/; they are modelled from their contract in spec.md   *)
(* (sections 4.1 and 6).  The preferences of a user are fixed for a run;   *)
(* the OS answers each capability query and each retrieval gate as it      *)
(* pleases at the moment it is asked.                                      *)
(***************************************************************************)
EXTENDS Integers, Sequences, FiniteSets, TLC

(* ---------------------------------------------------------------------- *)
(* Bounds and input sets                                                   *)
(* ---------------------------------------------------------------------- *)
MaxCalls == 3

Users == {"u1", "u2"}
KeyHalfValues == {"", "h1"}
Blobs == {"b1", "b2"}
Procs == {"p1", "p2"}

(* JavaScript's undefined / null, and "no value yet" for a call record. *)
Undefined == "undefined"
Null == "null"
None == "none"

(* ---------------------------------------------------------------------- *)
(* State                                                                   *)
(* ---------------------------------------------------------------------- *)
VARIABLES
    platform,               \* the constructor's platform argument
    ctor,                   \* "pending" before the constructor runs, then "done" or "thrown"
    osBiometricsService,    \* the backend selected by loadOsBiometricService
    clientKeyHalves,        \* Map<string, string>: a function on the registered users
    shouldAutoPrompt,       \* the auto-prompt flag
    osStore,                \* the OS secret store behind the backend
    unlockEnabled,          \* preference store: getBiometricUnlockEnabled
    requirePasswordOnStart, \* preference store: getRequirePasswordOnStart
    calls,                  \* one record per call slot: the call in flight or its settled result
    ncalls,                 \* number of calls started so far
    keyHalfSet,             \* history: users for whom setClientKeyHalfForUser has run
    protected,              \* history: per user, what the last completed write or delete left
    lastKeyHalf,            \* history: per user, the argument of the last setClientKeyHalfForUser
    lastAutoprompt          \* history: the argument of the last setShouldAutopromptNow, if any

ctorVars == <<platform, ctor, osBiometricsService>>
progVars == <<ctorVars, clientKeyHalves, shouldAutoPrompt>>
envVars == <<unlockEnabled, requirePasswordOnStart>>
histVars == <<keyHalfSet, protected, lastKeyHalf, lastAutoprompt>>
vars == <<platform, ctor, osBiometricsService, clientKeyHalves, shouldAutoPrompt,
          osStore, unlockEnabled, requirePasswordOnStart,
          calls, ncalls, keyHalfSet, protected, lastKeyHalf, lastAutoprompt>>

(* ---------------------------------------------------------------------- *)
(* BiometricsStatus enumeration                                            *)
(* ---------------------------------------------------------------------- *)
Available == "Available"
UnlockNeeded == "UnlockNeeded"
HardwareUnavailable == "HardwareUnavailable"
AutoSetupNeeded == "AutoSetupNeeded"
ManualSetupNeeded == "ManualSetupNeeded"
NotEnabledLocally == "NotEnabledLocally"

(* ---------------------------------------------------------------------- *)
(* Map<string, string> operations on clientKeyHalves                       *)
(* ---------------------------------------------------------------------- *)
EmptyMap == [k \in {} |-> ""]

MapHas(m, k) == k \in DOMAIN m

MapGet(m, k) == IF k \in DOMAIN m THEN m[k] ELSE Undefined

MapSet(m, k, v) == [x \in DOMAIN m \cup {k} |-> IF x = k THEN v ELSE m[x]]

MapDelete(m, k) == [x \in DOMAIN m \ {k} |-> m[x]]

(* JavaScript truthiness of a string-or-undefined value: !!s *)
Truthy(s) == s # Undefined /\ s # ""

(* ---------------------------------------------------------------------- *)
(* Secret-store addressing                                                 *)
(* ---------------------------------------------------------------------- *)
ServiceName == "Bitwarden_biometric"

(* Mutant: the user identifier is left out of the storage key. *)
StorageKey_NoUser(userId) == "_user_biometric"

StorageKey(userId) == userId \o "_user_biometric"

(* ---------------------------------------------------------------------- *)
(* Collaborators (contract of spec.md 4.1 and 6)                           *)
(* ---------------------------------------------------------------------- *)

(* The backend's combination rule: the serialized key material it hands   *)
(* back is a deterministic function of the stored value and the key half. *)
Combine(value, keyHalf) == value \o "+" \o keyHalf

(* setBiometricKey(service, storageKey, value, keyHalf): store the value  *)
(* under the identifier, bound to the supplied key half.                   *)
BackendSetBiometricKey(store, service, storageKey, value, keyHalf) ==
    MapSet(store, <<service, storageKey>>, [value |-> value, keyHalf |-> keyHalf])

(* deleteBiometricKey(service, storageKey): idempotent removal. *)
BackendDeleteBiometricKey(store, service, storageKey) ==
    MapDelete(store, <<service, storageKey>>)

(* getBiometricKey(service, storageKey, keyHalf): KeyNotFound when no     *)
(* blob is stored, AuthenticationFailed when the OS gate rejects the       *)
(* retrieval, KeyHalfMismatch when the blob is bound to a key half and the *)
(* supplied one is absent or different, else the combined key material.    *)
BackendGetBiometricKey(store, service, storageKey, keyHalf, gateOk) ==
    LET id == <<service, storageKey>> IN
    IF id \notin DOMAIN store
      THEN [value |-> Undefined, err |-> "KeyNotFound", gate |-> None]
    ELSE IF ~gateOk
      THEN [value |-> Undefined, err |-> "AuthenticationFailed", gate |-> "rejected"]
    ELSE IF store[id].keyHalf # keyHalf
      THEN [value |-> Undefined, err |-> "KeyHalfMismatch", gate |-> "passed"]
    ELSE [value |-> Combine(store[id].value, store[id].keyHalf), err |-> None,
          gate |-> "passed"]

(* SymmetricCryptoKey.fromString: null stays null, a serialized key is    *)
(* decoded into a key object.                                              *)
FromString(s) ==
    IF s = Null \/ s = Undefined THEN Null ELSE "SymmetricCryptoKey:" \o s

(* ---------------------------------------------------------------------- *)
(* Call records                                                            *)
(* ---------------------------------------------------------------------- *)
IdleCall ==
    [op |-> None, pc |-> "idle", userId |-> None, value |-> None,
     queried |-> {}, answers |-> EmptyMap, backendCalls |-> <<>>,
     platformStatus |-> None,
     clientKeyHalfB64 |-> None, gate |-> None, ret |-> None, err |-> None,
     regAtCall |-> None]

(* A fresh call; regAtCall remembers what the registry held for the user  *)
(* when the call was made.                                                 *)
NewCall(op, userId, value) ==
    [IdleCall EXCEPT !.op = op, !.userId = userId, !.value = value,
                     !.regAtCall = IF userId = None THEN None
                                   ELSE MapGet(clientKeyHalves, userId)]

(* A method can be called on an object whose constructor has returned. *)
Usable == ctor = "done" /\ ncalls < MaxCalls

(* A slot takes a new call when it is free or holds a settled result. *)
CanStart(p) == calls[p].pc \in {"idle", "done"} /\ Usable

(* A JavaScript boolean as a returned value. *)
JsBool(b) == IF b THEN "true" ELSE "false"

Done(c, ret) == [c EXCEPT !.pc = "done", !.ret = ret]

Thrown(c, err) == [c EXCEPT !.pc = "done", !.err = err]

(* ---------------------------------------------------------------------- *)
(* getBiometricsStatus / getBiometricsStatusForUser                        *)
(* ---------------------------------------------------------------------- *)

(* The platform status as one evaluation of lines 61-74. *)
BiometricsStatusOf(os) ==
    IF ~os.supports THEN HardwareUnavailable
    ELSE IF os.needsSetup
      THEN (IF os.canAutoSetup THEN AutoSetupNeeded ELSE ManualSetupNeeded)
    ELSE Available

(* Lines 94-100: the decision taken once requireClientKeyHalf is known. *)
KeyHalfStatus(requireClientKeyHalf, clientKeyHalfB64) ==
    LET clientKeyHalfSatisfied == ~requireClientKeyHalf \/ Truthy(clientKeyHalfB64) IN
    IF ~clientKeyHalfSatisfied THEN UnlockNeeded ELSE Available

(* The user status as one evaluation of lines 83-101 in the current state, *)
(* were the OS to answer the capability queries as in `os`.                *)
StatusForUser(userId, os) ==
    IF ~unlockEnabled[userId] THEN NotEnabledLocally
    ELSE IF BiometricsStatusOf(os) # Available THEN BiometricsStatusOf(os)
    ELSE KeyHalfStatus(requirePasswordOnStart[userId], MapGet(clientKeyHalves, userId))

(* What a call does once getBiometricsStatus has produced `status`: the   *)
(* platform call returns it; the user call returns it unless it is         *)
(* Available and then asks for getRequirePasswordOnStart (lines 88-93).    *)
AfterPlatformStatus(c, status) ==
    IF c.op = "getBiometricsStatus" THEN Done([c EXCEPT !.platformStatus = status], status)
    ELSE IF status # Available THEN Done([c EXCEPT !.platformStatus = status], status)
    ELSE [c EXCEPT !.platformStatus = status, !.pc = "awaitRequire",
                   !.queried = @ \cup {"getRequirePasswordOnStart"}]

GetBiometricsStatus(p) ==
    /\ CanStart(p)
    /\ calls' = [calls EXCEPT ![p] =
                   [NewCall("getBiometricsStatus", None, None) EXCEPT
                      !.pc = "awaitSupports", !.queried = {"osSupportsBiometric"}]]
    /\ ncalls' = ncalls + 1
    /\ UNCHANGED <<progVars, osStore, envVars, histVars>>

GetBiometricsStatusForUser(p, userId) ==
    /\ CanStart(p)
    /\ calls' = [calls EXCEPT ![p] =
                   [NewCall("getBiometricsStatusForUser", userId, None) EXCEPT
                      !.pc = "awaitEnabled", !.queried = {"getBiometricUnlockEnabled"}]]
    /\ ncalls' = ncalls + 1
    /\ UNCHANGED <<progVars, osStore, envVars, histVars>>

(* Mutant: the enablement answer is not tested and the platform is asked. *)
AfterEnabled_IgnoresAnswer(c, enabled) ==
    [c EXCEPT !.answers = MapSet(@, "getBiometricUnlockEnabled", enabled),
              !.pc = "awaitSupports",
              !.queried = @ \cup {"osSupportsBiometric"}]

(* Lines 84-88 and 62: the answer of getBiometricUnlockEnabled decides. *)
AfterEnabled(c, enabled) ==
    LET d == [c EXCEPT !.answers = MapSet(@, "getBiometricUnlockEnabled", enabled)] IN
    IF ~enabled
      THEN Done(d, NotEnabledLocally)
      ELSE [d EXCEPT !.pc = "awaitSupports",
                     !.queried = @ \cup {"osSupportsBiometric"}]

EnabledAnswered(p) ==
    /\ calls[p].pc = "awaitEnabled"
    /\ calls' = [calls EXCEPT ![p] = AfterEnabled(@, unlockEnabled[calls[p].userId])]
    /\ UNCHANGED <<progVars, osStore, envVars, ncalls, histVars>>

(* Lines 62-65: the answer of osSupportsBiometric decides. *)
AfterSupports(c, supports) ==
    LET d == [c EXCEPT !.answers = MapSet(@, "osSupportsBiometric", supports)] IN
    IF ~supports
      THEN AfterPlatformStatus(d, HardwareUnavailable)
      ELSE [d EXCEPT !.pc = "awaitNeedsSetup",
                     !.queried = @ \cup {"osBiometricsNeedsSetup"}]

SupportsAnswered(p) ==
    /\ calls[p].pc = "awaitSupports"
    /\ \E supports \in BOOLEAN :
         calls' = [calls EXCEPT ![p] = AfterSupports(@, supports)]
    /\ UNCHANGED <<progVars, osStore, envVars, ncalls, histVars>>

(* Mutant: osBiometricsCanAutoSetup is asked whether or not setup is needed. *)
AfterNeedsSetup_AlwaysAsksAutoSetup(c, needsSetup) ==
    [c EXCEPT !.answers = MapSet(@, "osBiometricsNeedsSetup", needsSetup),
              !.pc = "awaitCanAutoSetup",
              !.queried = @ \cup {"osBiometricsCanAutoSetup"}]

(* Lines 65-66 and 73: the answer of osBiometricsNeedsSetup decides. *)
AfterNeedsSetup(c, needsSetup) ==
    LET d == [c EXCEPT !.answers = MapSet(@, "osBiometricsNeedsSetup", needsSetup)] IN
    IF needsSetup
      THEN [d EXCEPT !.pc = "awaitCanAutoSetup",
                     !.queried = @ \cup {"osBiometricsCanAutoSetup"}]
      ELSE AfterPlatformStatus(d, Available)

NeedsSetupAnswered(p) ==
    /\ calls[p].pc = "awaitNeedsSetup"
    /\ \E needsSetup \in BOOLEAN :
         calls' = [calls EXCEPT ![p] = AfterNeedsSetup(@, needsSetup)]
    /\ UNCHANGED <<progVars, osStore, envVars, ncalls, histVars>>

(* Lines 66-70: the answer of osBiometricsCanAutoSetup decides. *)
AfterCanAutoSetup(c, canAutoSetup) ==
    AfterPlatformStatus(
        [c EXCEPT !.answers = MapSet(@, "osBiometricsCanAutoSetup", canAutoSetup)],
        IF canAutoSetup THEN AutoSetupNeeded ELSE ManualSetupNeeded)

CanAutoSetupAnswered(p) ==
    /\ calls[p].pc = "awaitCanAutoSetup"
    /\ \E canAutoSetup \in BOOLEAN :
         calls' = [calls EXCEPT ![p] = AfterCanAutoSetup(@, canAutoSetup)]
    /\ UNCHANGED <<progVars, osStore, envVars, ncalls, histVars>>

(* Lines 93-100: the answer of getRequirePasswordOnStart and the registry *)
(* entry read right after it decide.                                       *)
AfterRequire(c, requireClientKeyHalf, clientKeyHalfB64) ==
    Done([c EXCEPT !.answers = MapSet(@, "getRequirePasswordOnStart",
                                      requireClientKeyHalf),
                   !.clientKeyHalfB64 = clientKeyHalfB64],
         KeyHalfStatus(requireClientKeyHalf, clientKeyHalfB64))

RequireAnswered(p) ==
    /\ calls[p].pc = "awaitRequire"
    /\ calls' = [calls EXCEPT ![p] =
                   AfterRequire(@, requirePasswordOnStart[calls[p].userId],
                                MapGet(clientKeyHalves, calls[p].userId))]
    /\ UNCHANGED <<progVars, osStore, envVars, ncalls, histVars>>

(* ---------------------------------------------------------------------- *)
(* setClientKeyHalfForUser (lines 111-113): a synchronous body             *)
(* ---------------------------------------------------------------------- *)
(* Mutant: an empty value removes the entry instead of being stored. *)
RegisterKeyHalf_EmptyUnregisters(m, userId, value) ==
    IF value = "" THEN MapDelete(m, userId) ELSE MapSet(m, userId, value)

(* Mutant: an entry that exists is kept, the first write wins. *)
RegisterKeyHalf_KeepsFirst(m, userId, value) ==
    IF MapHas(m, userId) THEN m ELSE MapSet(m, userId, value)

(* Line 112: this.clientKeyHalves.set(userId, value). *)
RegisterKeyHalf(m, userId, value) == MapSet(m, userId, value)

SetClientKeyHalfForUser(userId, value) ==
    /\ Usable
    /\ clientKeyHalves' = RegisterKeyHalf(clientKeyHalves, userId, value)
    /\ ncalls' = ncalls + 1
    /\ keyHalfSet' = keyHalfSet \cup {userId}
    /\ lastKeyHalf' = MapSet(lastKeyHalf, userId, value)
    /\ UNCHANGED <<ctorVars, shouldAutoPrompt, osStore, envVars, calls, protected,
                   lastAutoprompt>>

(* ---------------------------------------------------------------------- *)
(* unlockWithBiometricsForUser (lines 119-127)                             *)
(* ---------------------------------------------------------------------- *)

(* Mutant: the registered key half is not passed on to the backend. *)
UnlockArgs_NoKeyHalf(m, userId) ==
    [fn |-> "getBiometricKey", service |-> ServiceName,
     storageKey |-> StorageKey(userId), value |-> None, keyHalf |-> Undefined]

(* The arguments of the getBiometricKey invocation (lines 121-125). *)
UnlockArgs(m, userId) ==
    [fn |-> "getBiometricKey", service |-> ServiceName,
     storageKey |-> StorageKey(userId), value |-> None,
     keyHalf |-> MapGet(m, userId)]

(* Mutant: the rejection of the awaited backend call is swallowed and the *)
(* call returns what fromString makes of no value.                        *)
UnlockReturn_SwallowsError(c, outcome) ==
    Done([c EXCEPT !.gate = outcome.gate], FromString(outcome.value))

(* Line 120 and 126: a rejected await propagates, a value goes through    *)
(* SymmetricCryptoKey.fromString.                                          *)
UnlockReturn(c, outcome) ==
    IF outcome.err # None
      THEN Thrown([c EXCEPT !.gate = outcome.gate], outcome.err)
      ELSE Done([c EXCEPT !.gate = outcome.gate], FromString(outcome.value))

(* Mutant: the read has the precondition of the write. *)
UnlockStart_RequiresKeyHalf(c, m, userId) ==
    IF ~MapHas(m, userId)
      THEN Thrown(c, "No client key half provided for user")
      ELSE [c EXCEPT !.pc = "awaitGetBiometricKey",
                     !.backendCalls = <<UnlockArgs(m, userId)>>]

(* Lines 120-125 up to the await: no precondition, the backend is invoked. *)
UnlockStart(c, m, userId) ==
    [c EXCEPT !.pc = "awaitGetBiometricKey",
              !.backendCalls = <<UnlockArgs(m, userId)>>]

UnlockWithBiometricsForUser(p, userId) ==
    /\ CanStart(p)
    /\ calls' = [calls EXCEPT ![p] =
                   UnlockStart(NewCall("unlockWithBiometricsForUser", userId, None),
                               clientKeyHalves, userId)]
    /\ ncalls' = ncalls + 1
    /\ UNCHANGED <<progVars, osStore, envVars, histVars>>

GetBiometricKeyReturned(p) ==
    /\ calls[p].pc = "awaitGetBiometricKey"
    /\ \E gateOk \in BOOLEAN :
         LET a == calls[p].backendCalls[1]
             outcome == BackendGetBiometricKey(osStore, a.service, a.storageKey,
                                               a.keyHalf, gateOk)
         IN calls' = [calls EXCEPT ![p] = UnlockReturn(@, outcome)]
    /\ UNCHANGED <<progVars, osStore, envVars, ncalls, histVars>>

(* ---------------------------------------------------------------------- *)
(* setBiometricProtectedUnlockKeyForUser (lines 129-142)                   *)
(* ---------------------------------------------------------------------- *)
MissingKeyHalf == "No client key half provided for user"

(* Mutant: the precondition tests the entry's truthiness, as the status   *)
(* check does, instead of its presence.                                    *)
HasClientKeyHalf_Truthy(m, userId) == Truthy(MapGet(m, userId))

(* Line 132: the precondition of the write. *)
HasClientKeyHalf(m, userId) == MapHas(m, userId)

(* The arguments of the setBiometricKey invocation (lines 136-141). *)
ProtectArgs(m, userId, value) ==
    [fn |-> "setBiometricKey", service |-> ServiceName,
     storageKey |-> StorageKey(userId), value |-> value,
     keyHalf |-> MapGet(m, userId)]

(* Mutant: the precondition is missing and the backend is always invoked. *)
ProtectStart_NoPrecondition(c, m, userId, value) ==
    [c EXCEPT !.pc = "awaitSetBiometricKey",
              !.backendCalls = <<ProtectArgs(m, userId, value)>>]

(* Lines 130-141 up to the await: throw, or invoke the backend. *)
ProtectStart(c, m, userId, value) ==
    IF ~HasClientKeyHalf(m, userId)
      THEN Thrown(c, MissingKeyHalf)
      ELSE [c EXCEPT !.pc = "awaitSetBiometricKey",
                     !.backendCalls = <<ProtectArgs(m, userId, value)>>]

SetBiometricProtectedUnlockKeyForUser(p, userId, value) ==
    /\ CanStart(p)
    /\ calls' = [calls EXCEPT ![p] =
                   ProtectStart(NewCall("setBiometricProtectedUnlockKeyForUser",
                                        userId, value),
                                clientKeyHalves, userId, value)]
    /\ ncalls' = ncalls + 1
    /\ UNCHANGED <<progVars, osStore, envVars, histVars>>

SetBiometricKeyReturned(p) ==
    /\ calls[p].pc = "awaitSetBiometricKey"
    /\ LET a == calls[p].backendCalls[1] IN
       osStore' = BackendSetBiometricKey(osStore, a.service, a.storageKey,
                                         a.value, a.keyHalf)
    /\ calls' = [calls EXCEPT ![p] = Done(@, Undefined)]
    /\ protected' = MapSet(protected, calls[p].userId,
                           [value |-> calls[p].value, keyHalf |-> calls[p].regAtCall])
    /\ UNCHANGED <<progVars, envVars, ncalls, keyHalfSet, lastKeyHalf, lastAutoprompt>>

(* ---------------------------------------------------------------------- *)
(* deleteBiometricUnlockKeyForUser (lines 144-149)                         *)
(* ---------------------------------------------------------------------- *)
(* Mutant: the storage key leaves out the suffix. *)
DeleteArgs_BareUserId(userId) ==
    [fn |-> "deleteBiometricKey", service |-> ServiceName,
     storageKey |-> userId, value |-> None, keyHalf |-> None]

DeleteArgs(userId) ==
    [fn |-> "deleteBiometricKey", service |-> ServiceName,
     storageKey |-> StorageKey(userId), value |-> None, keyHalf |-> None]

DeleteBiometricUnlockKeyForUser(p, userId) ==
    /\ CanStart(p)
    /\ calls' = [calls EXCEPT ![p] =
                   [NewCall("deleteBiometricUnlockKeyForUser", userId, None) EXCEPT
                      !.pc = "awaitDeleteBiometricKey",
                      !.backendCalls = <<DeleteArgs(userId)>>]]
    /\ ncalls' = ncalls + 1
    /\ UNCHANGED <<progVars, osStore, envVars, histVars>>

DeleteBiometricKeyReturned(p) ==
    /\ calls[p].pc = "awaitDeleteBiometricKey"
    /\ LET a == calls[p].backendCalls[1] IN
       osStore' = BackendDeleteBiometricKey(osStore, a.service, a.storageKey)
    /\ calls' = [calls EXCEPT ![p] = Done(@, Undefined)]
    /\ protected' = MapDelete(protected, calls[p].userId)
    /\ UNCHANGED <<progVars, envVars, ncalls, keyHalfSet, lastKeyHalf, lastAutoprompt>>

(* ---------------------------------------------------------------------- *)
(* authenticateBiometric (lines 103-105) and authenticateWithBiometrics    *)
(* (lines 115-117): both await the backend's authenticateBiometric         *)
(* ---------------------------------------------------------------------- *)
AuthenticateArgs ==
    [fn |-> "authenticateBiometric", service |-> None, storageKey |-> None,
     value |-> None, keyHalf |-> None]

(* Mutant: a declined attempt is tried again. *)
AuthenticateReturn_RetriesOnFalse(c, ok) ==
    IF ok
      THEN Done([c EXCEPT !.answers = MapSet(@, "authenticateBiometric", ok)], JsBool(ok))
      ELSE [c EXCEPT !.backendCalls = Append(@, AuthenticateArgs)]

(* Lines 104 and 116: the awaited boolean is returned as it is. *)
AuthenticateReturn(c, ok) ==
    Done([c EXCEPT !.answers = MapSet(@, "authenticateBiometric", ok)], JsBool(ok))

AuthenticateBiometric(p) ==
    /\ CanStart(p)
    /\ calls' = [calls EXCEPT ![p] =
                   [NewCall("authenticateBiometric", None, None) EXCEPT
                      !.pc = "awaitAuthenticateBiometric",
                      !.backendCalls = <<AuthenticateArgs>>]]
    /\ ncalls' = ncalls + 1
    /\ UNCHANGED <<progVars, osStore, envVars, histVars>>

AuthenticateWithBiometrics(p) ==
    /\ CanStart(p)
    /\ calls' = [calls EXCEPT ![p] =
                   [NewCall("authenticateWithBiometrics", None, None) EXCEPT
                      !.pc = "awaitAuthenticateBiometric",
                      !.backendCalls = <<AuthenticateArgs>>]]
    /\ ncalls' = ncalls + 1
    /\ UNCHANGED <<progVars, osStore, envVars, histVars>>

(* The OS reports whether the user authenticated; a declined attempt is   *)
(* the answer false.                                                       *)
AuthenticateBiometricReturned(p) ==
    /\ calls[p].pc = "awaitAuthenticateBiometric"
    /\ \E ok \in BOOLEAN :
         calls' = [calls EXCEPT ![p] = AuthenticateReturn(@, ok)]
    /\ UNCHANGED <<progVars, osStore, envVars, ncalls, histVars>>

(* ---------------------------------------------------------------------- *)
(* setShouldAutopromptNow / getShouldAutopromptNow (lines 156-166):        *)
(* synchronous bodies                                                      *)
(* ---------------------------------------------------------------------- *)
SetShouldAutopromptNow(value) ==
    /\ Usable
    /\ shouldAutoPrompt' = value
    /\ lastAutoprompt' = JsBool(value)
    /\ ncalls' = ncalls + 1
    /\ UNCHANGED <<ctorVars, clientKeyHalves, osStore, envVars, calls,
                   keyHalfSet, protected, lastKeyHalf>>

(* Mutant: reading the flag consumes it. *)
FlagAfterGet_Consumes(flag) == FALSE

(* Line 165: the flag is read and left as it is. *)
FlagAfterGet(flag) == flag

(* The body runs at the call and reads the flag; the promise it returns   *)
(* hands the value to the caller on a later turn.                          *)
GetShouldAutopromptNow(p) ==
    /\ CanStart(p)
    /\ calls' = [calls EXCEPT ![p] =
                   [NewCall("getShouldAutopromptNow", None, None) EXCEPT
                      !.pc = "resolved",
                      !.ret = JsBool(shouldAutoPrompt)]]
    /\ shouldAutoPrompt' = FlagAfterGet(shouldAutoPrompt)
    /\ ncalls' = ncalls + 1
    /\ UNCHANGED <<ctorVars, clientKeyHalves, osStore, envVars, histVars>>

GetShouldAutopromptNowReturned(p) ==
    /\ calls[p].pc = "resolved"
    /\ calls' = [calls EXCEPT ![p] = Done(@, @.ret)]
    /\ UNCHANGED <<progVars, osStore, envVars, ncalls, histVars>>

(* ---------------------------------------------------------------------- *)
(* constructor and loadOsBiometricService (lines 19-51)                    *)
(* ---------------------------------------------------------------------- *)
Platforms == {"win32", "darwin", "linux", "freebsd"}

Unsupported == "Unsupported platform"

(* Mutant: an unrecognized platform falls back to the Linux backend. *)
LoadOsBiometricService_Fallback(p) ==
    IF p = "win32" THEN "OsBiometricsServiceWindows"
    ELSE IF p = "darwin" THEN "OsBiometricsServiceMac"
    ELSE "OsBiometricsServiceLinux"

(* Lines 31-51: the backend class for a platform, or the error thrown. *)
LoadOsBiometricService(p) ==
    IF p = "win32" THEN "OsBiometricsServiceWindows"
    ELSE IF p = "darwin" THEN "OsBiometricsServiceMac"
    ELSE IF p = "linux" THEN "OsBiometricsServiceLinux"
    ELSE Unsupported

(* Lines 26-29: the fields are initialized, then the backend is loaded;   *)
(* when that throws, `new` yields no object.                               *)
Construct ==
    /\ ctor = "pending"
    /\ LET loaded == LoadOsBiometricService(platform) IN
       IF loaded = Unsupported
         THEN ctor' = "thrown" /\ osBiometricsService' = None
         ELSE ctor' = "done" /\ osBiometricsService' = loaded
    /\ UNCHANGED <<platform, clientKeyHalves, shouldAutoPrompt, osStore, envVars,
                   calls, ncalls, histVars>>

(* ---------------------------------------------------------------------- *)
(* Specification                                                           *)
(* ---------------------------------------------------------------------- *)
(* The answers the OS can give to the three capability queries. *)
OsStates == [supports : BOOLEAN, needsSetup : BOOLEAN, canAutoSetup : BOOLEAN]

(* The object as constructed (lines 16-17), on a machine whose secret     *)
(* store holds no blob yet, for every setting of the users' preferences.   *)
Fields ==
    /\ clientKeyHalves = EmptyMap
    /\ shouldAutoPrompt = TRUE
    /\ osStore = EmptyMap
    /\ calls = [p \in Procs |-> IdleCall]
    /\ ncalls = 0
    /\ keyHalfSet = {}
    /\ protected = EmptyMap
    /\ lastKeyHalf = EmptyMap
    /\ lastAutoprompt = None

Init ==
    /\ platform = "linux"
    /\ ctor = "done"
    /\ osBiometricsService = LoadOsBiometricService(platform)
    /\ Fields
    /\ unlockEnabled \in [Users -> BOOLEAN]
    /\ requirePasswordOnStart \in [Users -> BOOLEAN]

Next ==
    \/ \E p \in Procs : GetBiometricsStatus(p)
    \/ \E p \in Procs, u \in Users : GetBiometricsStatusForUser(p, u)
    \/ \E p \in Procs : EnabledAnswered(p)
    \/ \E p \in Procs : SupportsAnswered(p)
    \/ \E p \in Procs : NeedsSetupAnswered(p)
    \/ \E p \in Procs : CanAutoSetupAnswered(p)
    \/ \E p \in Procs : RequireAnswered(p)
    \/ \E u \in Users, v \in KeyHalfValues : SetClientKeyHalfForUser(u, v)
    \/ \E p \in Procs, u \in Users : UnlockWithBiometricsForUser(p, u)
    \/ \E p \in Procs : GetBiometricKeyReturned(p)
    \/ \E p \in Procs, u \in Users, v \in Blobs :
          SetBiometricProtectedUnlockKeyForUser(p, u, v)
    \/ \E p \in Procs : SetBiometricKeyReturned(p)
    \/ \E p \in Procs, u \in Users : DeleteBiometricUnlockKeyForUser(p, u)
    \/ \E p \in Procs : DeleteBiometricKeyReturned(p)
    \/ \E p \in Procs : AuthenticateBiometric(p)
    \/ \E p \in Procs : AuthenticateWithBiometrics(p)
    \/ \E p \in Procs : AuthenticateBiometricReturned(p)
    \/ \E v \in BOOLEAN : SetShouldAutopromptNow(v)
    \/ \E p \in Procs : GetShouldAutopromptNow(p)
    \/ \E p \in Procs : GetShouldAutopromptNowReturned(p)

Spec == Init /\ [][Next]_vars

(* The program from before the constructor call, for every platform, with *)
(* both users' preferences set.                                            *)
InitCtor ==
    /\ platform \in Platforms
    /\ ctor = "pending"
    /\ osBiometricsService = None
    /\ Fields
    /\ unlockEnabled = [u \in Users |-> TRUE]
    /\ requirePasswordOnStart = [u \in Users |-> TRUE]

NextCtor == Construct \/ Next

SpecCtor == InitCtor /\ [][NextCtor]_vars

(* ---------------------------------------------------------------------- *)
(* Vocabulary of the properties                                            *)
(* ---------------------------------------------------------------------- *)
ProtectOp == "setBiometricProtectedUnlockKeyForUser"
UnlockOp == "unlockWithBiometricsForUser"
DeleteOp == "deleteBiometricUnlockKeyForUser"
StatusOp == "getBiometricsStatus"
UserStatusOp == "getBiometricsStatusForUser"
GetAutopromptOp == "getShouldAutopromptNow"
AuthenticateOps == {"authenticateBiometric", "authenticateWithBiometrics"}

(* The step in which slot p takes a new call. *)
Starts(p, op) ==
    /\ ncalls' = ncalls + 1
    /\ calls'[p] # calls[p]
    /\ calls'[p].op = op

(* The step in which the call in slot p settles. *)
Settles(p, op) ==
    /\ calls[p].op = op
    /\ calls[p].pc # "done"
    /\ calls'[p].pc = "done"
    /\ ncalls' = ncalls

UserOps == {ProtectOp, UnlockOp, DeleteOp, UserStatusOp}

(* The keys the backend can release in this model. *)
IsKey(r) ==
    r \in {"SymmetricCryptoKey:" \o b \o "+" \o h : b \in Blobs, h \in KeyHalfValues}

(* The identifier the spec prescribes for a user's blob. *)
BlobId(userId) == <<"Bitwarden_biometric", userId \o "_user_biometric">>

SetBiometricKeyCall(userId, value, keyHalf) ==
    [fn |-> "setBiometricKey", service |-> "Bitwarden_biometric",
     storageKey |-> userId \o "_user_biometric", value |-> value, keyHalf |-> keyHalf]

GetBiometricKeyCall(userId, keyHalf) ==
    [fn |-> "getBiometricKey", service |-> "Bitwarden_biometric",
     storageKey |-> userId \o "_user_biometric", value |-> None, keyHalf |-> keyHalf]

(* ---------------------------------------------------------------------- *)
(* C1: setBiometricProtectedUnlockKeyForUser(u, v) called while no key     *)
(* half has been registered for u fails with the missing-key-half error,   *)
(* invokes no backend operation and leaves the store unchanged; called     *)
(* after setClientKeyHalfForUser(u, h) it does not raise that error and    *)
(* invokes setBiometricKey exactly once, with u's identifier, v and the    *)
(* key half registered for u at that moment.                               *)
(* ---------------------------------------------------------------------- *)
C1_ProtectRequiresKeyHalf ==
    /\ [][\A p \in Procs :
            Starts(p, ProtectOp) =>
              LET c == calls'[p]
                  u == c.userId
              IN IF u \notin keyHalfSet
                   THEN /\ c.pc = "done"
                        /\ c.err = MissingKeyHalf
                        /\ c.backendCalls = <<>>
                        /\ osStore' = osStore
                   ELSE /\ c.err = None
                        /\ c.backendCalls =
                             <<SetBiometricKeyCall(u, c.value,
                                                   MapGet(clientKeyHalves, u))>>]_vars
    /\ [](\A p \in Procs :
            calls[p].op = ProtectOp =>
              /\ Len(calls[p].backendCalls) <= 1
              /\ calls[p].err = MissingKeyHalf => calls[p].backendCalls = <<>>
              /\ (calls[p].pc = "done" /\ calls[p].err = None)
                   => Len(calls[p].backendCalls) = 1)

(* Both cases in one state: a call that failed for want of a key half and *)
(* a call that went through to the store.                                  *)
C1_Witness ==
    \E p, q \in Procs :
      /\ calls[p].op = ProtectOp /\ calls[p].pc = "done"
      /\ calls[p].err = MissingKeyHalf
      /\ calls[q].op = ProtectOp /\ calls[q].pc = "done"
      /\ calls[q].err = None
      /\ BlobId(calls[q].userId) \in DOMAIN osStore

(* ---------------------------------------------------------------------- *)
(* C2: under every interleaving, setBiometricKey is never invoked with an  *)
(* absent key half, and every blob in the store was written with the key   *)
(* half registered for its user when the write was made.                   *)
(* ---------------------------------------------------------------------- *)
C2_NoWriteWithoutKeyHalf ==
    /\ [](\A p \in Procs :
            \A i \in 1..Len(calls[p].backendCalls) :
              calls[p].backendCalls[i].fn = "setBiometricKey"
                => calls[p].backendCalls[i].keyHalf \in KeyHalfValues)
    /\ [](\A id \in DOMAIN osStore : osStore[id].keyHalf \in KeyHalfValues)
    /\ [][\A p \in Procs :
            (Starts(p, ProtectOp) /\ calls'[p].backendCalls # <<>>)
              => /\ MapHas(clientKeyHalves, calls'[p].userId)
                 /\ calls'[p].backendCalls[1].keyHalf
                      = clientKeyHalves[calls'[p].userId]]_vars
    /\ [][\A u \in Users :
            (/\ BlobId(u) \in DOMAIN osStore'
             /\ BlobId(u) \in DOMAIN osStore => osStore'[BlobId(u)] # osStore[BlobId(u)])
              => \E p \in Procs :
                   /\ Settles(p, ProtectOp)
                   /\ calls[p].userId = u
                   /\ calls[p].regAtCall \in KeyHalfValues
                   /\ osStore'[BlobId(u)] =
                        [value |-> calls[p].value, keyHalf |-> calls[p].regAtCall]]_vars

(* A blob is stored, bound to the key half of its write, and the registry *)
(* has moved on since: the binding is the one of the moment of the write.  *)
C2_Witness ==
    \E u \in Users :
      /\ BlobId(u) \in DOMAIN osStore
      /\ MapHas(clientKeyHalves, u)
      /\ osStore[BlobId(u)].keyHalf # clientKeyHalves[u]

(* ---------------------------------------------------------------------- *)
(* C3: unlockWithBiometricsForUser returns a key only if the OS gate       *)
(* admitted that retrieval; when the gate rejects it, no key is returned   *)
(* and the call ends in AuthenticationFailed.                              *)
(* ---------------------------------------------------------------------- *)
C3_KeyOnlyBehindGate ==
    \A p \in Procs :
      calls[p].op = UnlockOp =>
        /\ calls[p].ret # None => (calls[p].pc = "done" /\ calls[p].gate = "passed")
        /\ calls[p].gate = "rejected"
             => /\ calls[p].pc = "done"
                /\ calls[p].ret = None
                /\ calls[p].err = "AuthenticationFailed"

C3_Witness ==
    \E p \in Procs :
      /\ calls[p].op = UnlockOp /\ calls[p].pc = "done"
      /\ IsKey(calls[p].ret)
      /\ calls[p].gate = "passed"

C5_DisabledUserShortCircuits ==
    \A p \in Procs :
      (calls[p].op = UserStatusOp /\ ~unlockEnabled[calls[p].userId]) =>
        /\ calls[p].queried = {"getBiometricUnlockEnabled"}
        /\ DOMAIN calls[p].answers \subseteq {"getBiometricUnlockEnabled"}
        /\ calls[p].backendCalls = <<>>
        /\ calls[p].pc \in {"awaitEnabled", "done"}
        /\ calls[p].pc = "done" =>
             (calls[p].ret = NotEnabledLocally /\ calls[p].err = None)

(* A disabled user with a key half registered and requirePasswordOnStart  *)
(* set has been given NotEnabledLocally.                                   *)
C5_Witness ==
    \E p \in Procs :
      /\ calls[p].op = UserStatusOp /\ calls[p].pc = "done"
      /\ ~unlockEnabled[calls[p].userId]
      /\ requirePasswordOnStart[calls[p].userId]
      /\ calls[p].regAtCall = "h1"
      /\ calls[p].ret = NotEnabledLocally

(* ---------------------------------------------------------------------- *)
(* C6 as stated: for an enabled user, platform status Available and        *)
(* requirePasswordOnStart set, getBiometricsStatusForUser returns          *)
(* UnlockNeeded while no key half has been registered and Available once   *)
(* setClientKeyHalfForUser(u, v) has been called, for every string v, the  *)
(* empty string included.                                                  *)
(* ---------------------------------------------------------------------- *)
C6_AvailableOnceKeyHalfSet ==
    [][\A p \in Procs :
         (/\ Settles(p, UserStatusOp)
          /\ unlockEnabled[calls[p].userId]
          /\ calls'[p].platformStatus = Available
          /\ requirePasswordOnStart[calls[p].userId])
           => calls'[p].ret = IF calls[p].userId \in keyHalfSet
                                THEN Available ELSE UnlockNeeded]_vars

(* ---------------------------------------------------------------------- *)
(* C7: getBiometricsStatus returns HardwareUnavailable when the OS does    *)
(* not support biometrics, else AutoSetupNeeded when setup is needed and   *)
(* can be done automatically, else ManualSetupNeeded when setup is needed, *)
(* else Available; osBiometricsNeedsSetup is asked only when supported and *)
(* osBiometricsCanAutoSetup only when setup is needed.                     *)
(* ---------------------------------------------------------------------- *)
C7_PlatformStatusPriority ==
    \A p \in Procs :
      calls[p].op = StatusOp =>
        LET a == calls[p].answers
            q == calls[p].queried
            said(x) == x \in DOMAIN a /\ a[x]
        IN /\ "osSupportsBiometric" \in q
           /\ q \subseteq {"osSupportsBiometric", "osBiometricsNeedsSetup",
                           "osBiometricsCanAutoSetup"}
           /\ "osBiometricsNeedsSetup" \in q <=> said("osSupportsBiometric")
           /\ "osBiometricsCanAutoSetup" \in q <=> said("osBiometricsNeedsSetup")
           /\ calls[p].backendCalls = <<>>
           /\ calls[p].pc = "done" =>
                /\ DOMAIN a = q
                /\ calls[p].ret =
                     IF ~a["osSupportsBiometric"] THEN HardwareUnavailable
                     ELSE IF a["osBiometricsNeedsSetup"] /\ a["osBiometricsCanAutoSetup"]
                       THEN AutoSetupNeeded
                     ELSE IF a["osBiometricsNeedsSetup"] THEN ManualSetupNeeded
                     ELSE Available

(* One call cut short at the first query, another that went through all   *)
(* three.                                                                  *)
C7_Witness ==
    \E p, q \in Procs :
      /\ calls[p].op = StatusOp /\ calls[p].pc = "done"
      /\ calls[p].ret = HardwareUnavailable
      /\ calls[p].queried = {"osSupportsBiometric"}
      /\ calls[q].op = StatusOp /\ calls[q].pc = "done"
      /\ calls[q].ret = ManualSetupNeeded
      /\ Cardinality(calls[q].queried) = 3

(* ---------------------------------------------------------------------- *)
(* C8 as stated: for an enabled user a platform status other than          *)
(* Available is returned as it is; UnlockNeeded is returned only when the  *)
(* user is enabled, the platform status is Available, requirePasswordOn-   *)
(* Start is set and no key half is registered; getBiometricsStatus never   *)
(* returns UnlockNeeded or NotEnabledLocally.                              *)
(* ---------------------------------------------------------------------- *)
C8_UnlockNeededOnlyWithoutKeyHalf ==
    /\ [][\A p \in Procs :
            Settles(p, UserStatusOp) =>
              LET c == calls'[p]
                  u == c.userId
              IN /\ (unlockEnabled[u] /\ c.platformStatus \notin {None, Available})
                      => c.ret = c.platformStatus
                 /\ c.ret = UnlockNeeded
                      => /\ unlockEnabled[u]
                         /\ c.platformStatus = Available
                         /\ requirePasswordOnStart[u]
                         /\ u \notin keyHalfSet]_vars
    /\ [](\A p \in Procs :
            (calls[p].op = StatusOp /\ calls[p].pc = "done")
              => calls[p].ret \in {Available, HardwareUnavailable,
                                   AutoSetupNeeded, ManualSetupNeeded})

C10_UnlockNeedsNoKeyHalf ==
    /\ [][\A p \in Procs :
            (Starts(p, UnlockOp) /\ calls'[p].userId \notin keyHalfSet)
              => /\ calls'[p].pc = "awaitGetBiometricKey"
                 /\ calls'[p].err = None
                 /\ calls'[p].backendCalls =
                      <<GetBiometricKeyCall(calls'[p].userId, Undefined)>>]_vars
    /\ [][\A p \in Procs :
            (Settles(p, UnlockOp) /\ calls[p].regAtCall = Undefined)
              => LET c == calls'[p] IN
                 IF BlobId(c.userId) \notin DOMAIN osStore
                   THEN c.err = "KeyNotFound" /\ c.ret = None
                   ELSE \/ c.gate = "rejected" /\ c.err = "AuthenticationFailed"
                        \/ c.gate = "passed" /\ c.err = "KeyHalfMismatch"
                        \/ c.gate = "passed" /\ c.err = None /\ IsKey(c.ret)]_vars
    /\ [](\A p \in Procs :
            calls[p].op = UnlockOp
              => calls[p].err \in {None, "KeyNotFound", "AuthenticationFailed",
                                   "KeyHalfMismatch"})

(* A read made without a key half has reached a stored blob and been      *)
(* answered by the backend.                                                *)
C10_Witness ==
    \E p \in Procs :
      /\ calls[p].op = UnlockOp /\ calls[p].pc = "done"
      /\ calls[p].regAtCall = Undefined
      /\ calls[p].backendCalls = <<GetBiometricKeyCall(calls[p].userId, Undefined)>>
      /\ calls[p].err = "KeyHalfMismatch"

(* ---------------------------------------------------------------------- *)
(* C11: deleteBiometricUnlockKeyForUser(u) needs no key half and is        *)
(* idempotent.  Whatever the registry and the store hold, the call raises  *)
(* no error, asks the backend to delete u's identifier and leaves no blob  *)
(* stored for u; where none was stored the store is left as it was, so a   *)
(* second call changes nothing and succeeds as well.                       *)
(* ---------------------------------------------------------------------- *)
C11_DeleteIdempotent ==
    /\ [][\A p \in Procs :
            Starts(p, DeleteOp)
              => /\ calls'[p].pc = "awaitDeleteBiometricKey"
                 /\ calls'[p].err = None
                 /\ calls'[p].backendCalls =
                      <<[fn |-> "deleteBiometricKey",
                         service |-> "Bitwarden_biometric",
                         storageKey |-> calls'[p].userId \o "_user_biometric",
                         value |-> "none", keyHalf |-> "none"]>>]_vars
    /\ [][\A p \in Procs :
            Settles(p, DeleteOp)
              => /\ calls'[p].err = None
                 /\ BlobId(calls[p].userId) \notin DOMAIN osStore'
                 /\ \A id \in DOMAIN osStore :
                      id # BlobId(calls[p].userId)
                        => id \in DOMAIN osStore' /\ osStore'[id] = osStore[id]
                 /\ BlobId(calls[p].userId) \notin DOMAIN osStore
                      => osStore' = osStore
                 /\ clientKeyHalves' = clientKeyHalves]_vars
    /\ [](\A p \in Procs : calls[p].op = DeleteOp => calls[p].err = None)

(* Two deletes for a user who has no key half registered have both        *)
(* settled without error, the second on a store that held no blob.         *)
C11_Witness ==
    \E u \in Users :
      /\ u \notin DOMAIN clientKeyHalves
      /\ BlobId(u) \notin DOMAIN osStore
      /\ \A p \in Procs :
           /\ calls[p].op = DeleteOp /\ calls[p].pc = "done"
           /\ calls[p].userId = u /\ calls[p].err = None

(* ---------------------------------------------------------------------- *)
(* C12: the auto-prompt flag holds the argument of the most recent         *)
(* setShouldAutopromptNow call, or true when there has been none, and      *)
(* getShouldAutopromptNow returns it: a read yields that value and leaves  *)
(* the flag as it is, and a step that changes the flag is a                *)
(* setShouldAutopromptNow call and nothing else.                           *)
(* ---------------------------------------------------------------------- *)
C12_AutopromptFlag ==
    /\ [](shouldAutoPrompt =
            (IF lastAutoprompt = "none" THEN TRUE ELSE lastAutoprompt = "true"))
    /\ [][\A p \in Procs :
            Starts(p, GetAutopromptOp)
              => /\ calls'[p].ret =
                      (IF lastAutoprompt = "none" THEN "true" ELSE lastAutoprompt)
                 /\ calls'[p].err = "none"
                 /\ shouldAutoPrompt' = shouldAutoPrompt]_vars
    /\ [][\A p \in Procs :
            Settles(p, GetAutopromptOp)
              => /\ calls'[p].ret = calls[p].ret
                 /\ calls'[p].err = "none"
                 /\ shouldAutoPrompt' = shouldAutoPrompt]_vars
    /\ [][shouldAutoPrompt' # shouldAutoPrompt
            => /\ lastAutoprompt' = (IF shouldAutoPrompt' THEN "true" ELSE "false")
               /\ ncalls' = ncalls + 1
               /\ calls' = calls
               /\ clientKeyHalves' = clientKeyHalves
               /\ osStore' = osStore]_vars

(* After setShouldAutopromptNow(false), two reads with no set in between  *)
(* have both returned false.                                               *)
C12_Witness ==
    /\ lastAutoprompt = "false"
    /\ shouldAutoPrompt = FALSE
    /\ \A p \in Procs :
         /\ calls[p].op = GetAutopromptOp /\ calls[p].pc = "done"
         /\ calls[p].ret = "false"

(* ---------------------------------------------------------------------- *)
(* C13: the key-half registry is last-write-wins.  For every user the      *)
(* registry holds exactly the argument of the last setClientKeyHalfForUser *)
(* call that executed for that user, no earlier value; an unlock or        *)
(* protect call made afterwards passes that value to the backend; and a    *)
(* setClientKeyHalfForUser call can always be made, for any user and       *)
(* value, and has no failing outcome.                                      *)
(* ---------------------------------------------------------------------- *)
C13_LastWriteWins ==
    /\ [](clientKeyHalves = lastKeyHalf)
    /\ [][\A p \in Procs :
            (Starts(p, UnlockOp) /\ calls'[p].userId \in DOMAIN lastKeyHalf)
              => calls'[p].backendCalls =
                   <<GetBiometricKeyCall(calls'[p].userId,
                                         lastKeyHalf[calls'[p].userId])>>]_vars
    /\ [][\A p \in Procs :
            (Starts(p, ProtectOp) /\ calls'[p].userId \in DOMAIN lastKeyHalf)
              => /\ calls'[p].err = "none"
                 /\ calls'[p].backendCalls =
                      <<SetBiometricKeyCall(calls'[p].userId, calls'[p].value,
                                            lastKeyHalf[calls'[p].userId])>>]_vars
    /\ []((ctor = "done" /\ ncalls < MaxCalls)
            => \A u \in Users, v \in KeyHalfValues :
                 ENABLED SetClientKeyHalfForUser(u, v))

(* setClientKeyHalfForUser has run twice for u1 and for nobody else, and  *)
(* the unlock call made for u1 carries the value registered last.          *)
C13_Witness ==
    \E p \in Procs :
      /\ ncalls = 3
      /\ \A q \in Procs \ {p} : calls[q].pc = "idle"
      /\ lastAutoprompt = "none"
      /\ keyHalfSet = {"u1"}
      /\ lastKeyHalf["u1"] = "h1"
      /\ calls[p].op = UnlockOp /\ calls[p].userId = "u1"
      /\ calls[p].regAtCall = "h1"
      /\ calls[p].backendCalls = <<GetBiometricKeyCall("u1", "h1")>>

(* ---------------------------------------------------------------------- *)
(* C14: the backend is selected once, by the constructor.  For platform    *)
(* win32, darwin or linux the constructor returns with the one backend of  *)
(* that platform; for any other platform it throws, no backend is set and  *)
(* no operation is ever performed.  Once the constructor has run, neither  *)
(* its outcome nor the backend changes.                                    *)
(* ---------------------------------------------------------------------- *)
C14_BackendSelectedOnce ==
    /\ [](ctor = "done"
            => /\ platform \in {"win32", "darwin", "linux"}
               /\ osBiometricsService =
                    (CASE platform = "win32" -> "OsBiometricsServiceWindows"
                       [] platform = "darwin" -> "OsBiometricsServiceMac"
                       [] platform = "linux" -> "OsBiometricsServiceLinux"))
    /\ [](ctor = "thrown"
            => /\ platform \notin {"win32", "darwin", "linux"}
               /\ osBiometricsService = "none"
               /\ ~ENABLED NextCtor)
    /\ [](ctor # "done"
            => /\ ncalls = 0
               /\ \A p \in Procs : calls[p].pc = "idle"
               /\ DOMAIN clientKeyHalves = {}
               /\ DOMAIN osStore = {}
               /\ shouldAutoPrompt)
    /\ [][ctor # "pending"
            => /\ ctor' = ctor
               /\ osBiometricsService' = osBiometricsService
               /\ platform' = platform]_vars

(* Constructed for darwin, the object has its one backend and has served  *)
(* every call of the budget.                                               *)
C14_Witness ==
    /\ platform = "darwin"
    /\ ctor = "done"
    /\ osBiometricsService = "OsBiometricsServiceMac"
    /\ ncalls = MaxCalls
    /\ \E p \in Procs : calls[p].pc = "done"

(* ---------------------------------------------------------------------- *)
(* C15: authenticateBiometric and authenticateWithBiometrics pass the      *)
(* backend's answer through.  Each call invokes the backend's              *)
(* authenticateBiometric exactly once, returns the boolean it answered     *)
(* (false for a declined attempt, as a value and not as an error, with no  *)
(* second attempt), and leaves the key-half registry, the auto-prompt flag *)
(* and the stored blobs as they were.                                      *)
(* ---------------------------------------------------------------------- *)
C15_AuthenticatePassThrough ==
    /\ [](\A p \in Procs :
            calls[p].op \in AuthenticateOps
              => /\ calls[p].backendCalls =
                      <<[fn |-> "authenticateBiometric", service |-> "none",
                         storageKey |-> "none", value |-> "none",
                         keyHalf |-> "none"]>>
                 /\ calls[p].err = "none"
                 /\ IF calls[p].pc = "done"
                      THEN /\ DOMAIN calls[p].answers = {"authenticateBiometric"}
                           /\ calls[p].ret =
                                (IF calls[p].answers["authenticateBiometric"]
                                   THEN "true" ELSE "false")
                      ELSE calls[p].answers = EmptyMap /\ calls[p].ret = "none")
    /\ [][\A p \in Procs : \A op \in AuthenticateOps :
            (Starts(p, op) \/ Settles(p, op))
              => /\ clientKeyHalves' = clientKeyHalves
                 /\ shouldAutoPrompt' = shouldAutoPrompt
                 /\ osStore' = osStore]_vars

(* A declined attempt has been returned as the value false by one method  *)
(* and an accepted one as true by the other, each after one backend call.  *)
C15_Witness ==
    \E p, q \in Procs :
      /\ calls[p].op = "authenticateBiometric" /\ calls[p].pc = "done"
      /\ calls[p].ret = "false" /\ calls[p].err = "none"
      /\ Len(calls[p].backendCalls) = 1
      /\ calls[q].op = "authenticateWithBiometrics" /\ calls[q].pc = "done"
      /\ calls[q].ret = "true"
      /\ Len(calls[q].backendCalls) = 1

(* A step changes something of user w: the registered key half, the       *)
(* stored blob, or the status computed for w under some answers of the OS. *)
ChangesUser(w) ==
    \/ (w \in DOMAIN clientKeyHalves') # (w \in DOMAIN clientKeyHalves)
    \/ /\ w \in DOMAIN clientKeyHalves /\ w \in DOMAIN clientKeyHalves'
       /\ clientKeyHalves'[w] # clientKeyHalves[w]
    \/ (BlobId(w) \in DOMAIN osStore') # (BlobId(w) \in DOMAIN osStore)
    \/ /\ BlobId(w) \in DOMAIN osStore /\ BlobId(w) \in DOMAIN osStore'
       /\ osStore'[BlobId(w)] # osStore[BlobId(w)]
    \/ \E os \in OsStates : StatusForUser(w, os)' # StatusForUser(w, os)

(* ---------------------------------------------------------------------- *)
(* C16: per-user addressing and isolation.  Every backend call that a      *)
(* protect, unlock or delete call for u makes names the fixed service      *)
(* label and u followed by "_user_biometric"; two users never share an     *)
(* identifier and the store holds nothing under any other identifier; and  *)
(* no step of an operation for u changes the registered key half, the      *)
(* stored blob or the computed status of another user: a step changes      *)
(* these for one user at most, a step of a call for u for nobody but u,    *)
(* and a registry entry changes only in a setClientKeyHalfForUser call     *)
(* for that very user.                                                     *)
(* ---------------------------------------------------------------------- *)
C16_PerUserIsolation ==
    /\ [](\A p \in Procs :
            calls[p].op \in {ProtectOp, UnlockOp, DeleteOp}
              => \A i \in 1..Len(calls[p].backendCalls) :
                   /\ calls[p].backendCalls[i].service = "Bitwarden_biometric"
                   /\ calls[p].backendCalls[i].storageKey =
                        calls[p].userId \o "_user_biometric")
    /\ [](\A u, w \in Users : u # w => BlobId(u) # BlobId(w))
    /\ [](DOMAIN osStore \subseteq {BlobId(u) : u \in Users})
    /\ [][LET changed == {w \in Users : ChangesUser(w)} IN
          /\ \A u, w \in changed : u = w
          /\ \A p \in Procs : \A op \in UserOps :
               /\ Starts(p, op) => changed \subseteq {calls'[p].userId}
               /\ Settles(p, op) => changed \subseteq {calls[p].userId}
          /\ \A w \in Users :
               MapGet(clientKeyHalves', w) # MapGet(clientKeyHalves, w)
                 => /\ calls' = calls /\ ncalls' = ncalls + 1
                    /\ w \in DOMAIN lastKeyHalf'
                    /\ MapGet(lastKeyHalf, w) # lastKeyHalf'[w]
                    /\ MapGet(clientKeyHalves', w) = lastKeyHalf'[w]]_vars

(* u1 has a blob stored under its identifier and u2 has registered a      *)
(* different key half and has no blob.                                     *)
C16_Witness ==
    /\ BlobId("u1") \in DOMAIN osStore
    /\ BlobId("u2") \notin DOMAIN osStore
    /\ "u1" \in DOMAIN clientKeyHalves /\ "u2" \in DOMAIN clientKeyHalves
    /\ clientKeyHalves["u1"] # clientKeyHalves["u2"]

(* ---------------------------------------------------------------------- *)
(* C17: the registry only grows.  No step removes an entry, so every user  *)
(* for whom setClientKeyHalfForUser has completed has a registered key     *)
(* half in every later state, after deletes and failed unlocks and         *)
(* authentications too; and a setBiometricProtectedUnlockKeyForUser(u, _)  *)
(* call fails with the missing-key-half error only when no key half was    *)
(* ever registered for u and no earlier write for u passed the             *)
(* precondition.                                                           *)
(* ---------------------------------------------------------------------- *)
C17_RegistryOnlyGrows ==
    /\ [](keyHalfSet \subseteq DOMAIN clientKeyHalves)
    /\ [][DOMAIN clientKeyHalves \subseteq DOMAIN clientKeyHalves']_vars
    /\ [][\A p \in Procs :
            (/\ Starts(p, ProtectOp)
             /\ calls'[p].err = "No client key half provided for user")
              => /\ calls'[p].userId \notin keyHalfSet
                 /\ \A q \in Procs :
                      ~(/\ calls[q].op = ProtectOp
                        /\ calls[q].userId = calls'[p].userId
                        /\ calls[q].err = "none")]_vars

(* A delete and a failed unlock for u have settled, both called after u's *)
(* key half was registered, and the key half is still registered.          *)
C17_Witness ==
    \E u \in Users : \E p, q \in Procs :
      /\ u \in keyHalfSet /\ u \in DOMAIN clientKeyHalves
      /\ calls[p].op = DeleteOp /\ calls[p].pc = "done" /\ calls[p].userId = u
      /\ calls[p].regAtCall # "undefined"
      /\ calls[q].op = UnlockOp /\ calls[q].pc = "done" /\ calls[q].userId = u
      /\ calls[q].regAtCall # "undefined"
      /\ calls[q].err # "none"

(* ---------------------------------------------------------------------- *)
(* C18: the status check and the write precondition agree on whether a key *)
(* half is registered.  For a user with unlock enabled and                 *)
(* requirePasswordOnStart set, under answers of the OS that make the       *)
(* platform Available, getBiometricsStatusForUser(u) evaluates to          *)
(* UnlockNeeded exactly when setBiometricProtectedUnlockKeyForUser(u, _)   *)
(* called in the same state would throw the missing-key-half error.        *)
(* ---------------------------------------------------------------------- *)
C18_StatusAgreesWithWritePrecondition ==
    \A u \in Users : \A os \in OsStates : \A b \in Blobs :
      (/\ unlockEnabled[u]
       /\ requirePasswordOnStart[u]
       /\ BiometricsStatusOf(os) = "Available")
        => ((StatusForUser(u, os) = "UnlockNeeded")
              <=> (ProtectStart(NewCall(ProtectOp, u, b), clientKeyHalves, u, b).err
                     = "No client key half provided for user"))

(* ---------------------------------------------------------------------- *)
(* C19: a getBiometricsStatusForUser(u) call interleaved with              *)
(* setClientKeyHalfForUser calls returns, for the answers it was given,    *)
(* the status of the sequential rule on the registry as it is at an        *)
(* instant of the call (the instant of its return), and it never returns   *)
(* UnlockNeeded when a non-empty key half was registered for u at the      *)
(* moment the call began.                                                  *)
(* ---------------------------------------------------------------------- *)
C19_StatusLinearizable ==
    [][\A p \in Procs :
         Settles(p, UserStatusOp)
           => LET c == calls'[p] IN
              /\ \E os \in OsStates :
                   /\ c.platformStatus # "none"
                        => BiometricsStatusOf(os) = c.platformStatus
                   /\ c.ret = StatusForUser(c.userId, os)
              /\ calls[p].regAtCall \notin {"undefined", ""}
                   => c.ret # "UnlockNeeded"]_vars

====
